---- MODULE Spec2Model ----
(***************************************************************************)
(* Model of the Codex CLI language-model provider                          *)
(* (crates/language_models/src/provider/codex_cli.rs): the credential      *)
(* state and its authenticate / reset operations, the stream_completion    *)
(* call (command construction, spawn, prompt write, kill-on-drop handle),  *)
(* the unfold-based event stream over the child's output lines, and the    *)
(* line decoder parse_line.                                                *)
(***************************************************************************)
EXTENDS Integers, Sequences, FiniteSets, TLC

(***************************************************************************)
(* Bounds of the model.                                                    *)
(***************************************************************************)
\* number of authenticate invocations that may be made
NumAuth == 2
\* number of reset_credentials invocations that may be made
MaxResets == 1
\* longest output (in lines) of the external binary
MaxLines == 2
\* longest request (in messages) whose serialization is studied
MaxMessages == 2
\* largest number of auxiliary servers in the settings
MaxServers == 2

\* the stream_completion calls of the model, and the one call made in the
\* specifications that study a single call
Calls == {1, 2}
Solo == {1}
AuthTasks == 1..NumAuth

(***************************************************************************)
(* JSON values (serde_json::Value) as far as parse_line inspects them:     *)
(* a field is absent, a string, a boolean, or a value of another kind      *)
(* (null, number, array, object), kept opaque under its text.              *)
(***************************************************************************)
Absent == [k |-> "absent", v |-> ""]
JStr(s) == [k |-> "str", v |-> s]
JBool(b) == [k |-> "bool", v |-> IF b THEN "true" ELSE "false"]
JOther(s) == [k |-> "other", v |-> s]

\* Value::as_str / Value::as_bool return Some, and Value::get returned Some
IsStr(j) == j.k = "str"
IsBool(j) == j.k = "bool"
IsPresent(j) == j.k # "absent"

Fields == {"type", "id", "name", "tool_name", "input", "raw_input",
           "is_input_complete", "content", "text"}

NoFields == [f \in Fields |-> Absent]

\* An output line: its text, whether serde_json parses it, whether the parsed
\* value is an object, and the members of that object.
RawLine(s) == [raw |-> s, valid |-> FALSE, object |-> FALSE, fields |-> NoFields]
ScalarLine(s) == [raw |-> s, valid |-> TRUE, object |-> FALSE, fields |-> NoFields]
ObjectLine(s, fs) == [raw |-> s, valid |-> TRUE, object |-> TRUE, fields |-> fs]

\* serde_json::from_str::<Value>(line).is_ok()
from_str_ok(line) == line.valid

\* Value::get(key): Some(member) on an object that has the key, else None
Get(line, f) == IF line.object THEN line.fields[f] ELSE Absent

(***************************************************************************)
(* Completion events and stream items.                                     *)
(***************************************************************************)
NoInput == Absent

Text(s) ==
    [tag |-> "Text", text |-> s, id |-> "", name |-> "", raw_input |-> "",
     input |-> NoInput, is_input_complete |-> FALSE]

ToolUse(id, name, raw, input, complete) ==
    [tag |-> "ToolUse", text |-> "", id |-> id, name |-> name, raw_input |-> raw,
     input |-> input, is_input_complete |-> complete]

StopEndTurn ==
    [tag |-> "Stop", text |-> "EndTurn", id |-> "", name |-> "", raw_input |-> "",
     input |-> NoInput, is_input_complete |-> FALSE]

ApiReadResponseError ==
    [tag |-> "Error", text |-> "ApiReadResponseError", id |-> "", name |-> "",
     raw_input |-> "", input |-> NoInput, is_input_complete |-> FALSE]

NoEvent ==
    [tag |-> "NoEvent", text |-> "", id |-> "", name |-> "", raw_input |-> "",
     input |-> NoInput, is_input_complete |-> FALSE]

(***************************************************************************)
(* parse_line                                                              *)
(***************************************************************************)
\* value.get("type").and_then(|v| v.as_str()) is "tool" or "tool_use"
IsToolType(line) ==
    /\ IsStr(Get(line, "type"))
    /\ Get(line, "type").v \in {"tool", "tool_use"}

\* value.get("name").or_else(|| value.get("tool_name")): the member under
\* "name" when the object has one (of any kind), else the one under "tool_name"
NameMember(line) ==
    IF IsPresent(Get(line, "name")) THEN Get(line, "name") ELSE Get(line, "tool_name")

\* the (Some(id), Some(name), Some(input)) pattern
ToolTriple(line) ==
    /\ IsStr(Get(line, "id"))
    /\ IsStr(NameMember(line))
    /\ IsPresent(Get(line, "input"))

\* raw_input: get("raw_input").and_then(as_str).unwrap_or_default()
RawInputOf(line) ==
    IF IsStr(Get(line, "raw_input")) THEN Get(line, "raw_input").v ELSE ""

\* is_input_complete: get("is_input_complete").and_then(as_bool).unwrap_or(true)
InputCompleteOf(line) ==
    IF IsBool(Get(line, "is_input_complete"))
    THEN Get(line, "is_input_complete").v = "true"
    ELSE TRUE

\* parse_line with the text member consulted before the content member
parse_line_text_first(line) ==
    IF from_str_ok(line) /\ IsToolType(line) /\ ToolTriple(line)
    THEN ToolUse(Get(line, "id").v, NameMember(line).v, RawInputOf(line),
                 Get(line, "input"), InputCompleteOf(line))
    ELSE IF from_str_ok(line) /\ IsStr(Get(line, "text"))
    THEN Text(Get(line, "text").v)
    ELSE IF from_str_ok(line) /\ IsStr(Get(line, "content"))
    THEN Text(Get(line, "content").v)
    ELSE Text(line.raw)

parse_line(line) ==
    IF from_str_ok(line) /\ IsToolType(line) /\ ToolTriple(line)
    THEN ToolUse(Get(line, "id").v, NameMember(line).v, RawInputOf(line),
                 Get(line, "input"), InputCompleteOf(line))
    ELSE IF from_str_ok(line) /\ IsStr(Get(line, "content"))
    THEN Text(Get(line, "content").v)
    ELSE IF from_str_ok(line) /\ IsStr(Get(line, "text"))
    THEN Text(Get(line, "text").v)
    ELSE Text(line.raw)

(***************************************************************************)
(* Credential state                                                        *)
(***************************************************************************)
\* Option<String>
NoneKey == [some |-> FALSE, v |-> ""]
SomeKey(k) == [some |-> TRUE, v |-> k]

Keys == {"test"}

\* is_authenticated that never sees the stored secret
is_authenticated_never(key) == FALSE

\* a reset that leaves the stored key in place
ClearedKeyKeeps(key) == key

\* state.api_key = None in reset_credentials: the key after a reset
ClearedKey(key) == NoneKey

\* State::is_authenticated
is_authenticated(key) == key.some

\* ~/.codex/config.toml as authenticate sees it: no such file, a file that
\* cannot be read, a file that is not TOML of the expected shape, or a parsed
\* file with its optional api_key
FileMissing == [kind |-> "missing", api_key |-> NoneKey]
FileUnreadable == [kind |-> "unreadable", api_key |-> NoneKey]
FileMalformed == [kind |-> "malformed", api_key |-> NoneKey]
FileParsed(key) == [kind |-> "parsed", api_key |-> key]
Unread == [kind |-> "unread", api_key |-> NoneKey]

FileStates ==
    {FileMissing, FileUnreadable, FileMalformed, FileParsed(NoneKey)}
        \cup {FileParsed(SomeKey(k)) : k \in Keys}

\* result of smol::fs::read_to_string: the contents, or the error returned
ReadResult(f) ==
    CASE f.kind = "missing" -> "CredentialsNotFound"
      [] f.kind = "unreadable" -> "Other"
      [] OTHER -> "Ok"

\* the parse step without the ok_or on a missing api_key
ParseResultKeyOptional(contents) ==
    CASE contents.kind = "malformed" -> "Other"
      [] OTHER -> "Ok"

\* result of toml::from_str and of config.api_key.ok_or(..)
ParseResult(contents) ==
    CASE contents.kind = "malformed" -> "Other"
      [] ~contents.api_key.some -> "CredentialsNotFound"
      [] OTHER -> "Ok"

(***************************************************************************)
(* Requests, prompt serialization and command construction                 *)
(***************************************************************************)
Roles == {"System", "User", "Assistant"}

Message(role, content) == [role |-> role, content |-> content]

\* the match with the user and assistant arms exchanged
RolePrefixSwapped(role) ==
    CASE role = "System" -> "system:"
      [] role = "User" -> "assistant:"
      [] role = "Assistant" -> "user:"

RolePrefix(role) ==
    CASE role = "System" -> "system:"
      [] role = "User" -> "user:"
      [] role = "Assistant" -> "assistant:"

\* format!("{} {}\n", role, m.string_contents()), as its pieces
PromptLine(m) == <<RolePrefix(m.role), " ", m.content, "\n">>

RECURSIVE Prompt(_)
Prompt(messages) ==
    IF messages = <<>> THEN <<>>
    ELSE PromptLine(Head(messages)) \o Prompt(Tail(messages))

OneUserRequest == <<Message("User", "hello")>>

Requests == {<<>>, OneUserRequest}

\* an mcp_servers entry: name, launch command, arguments, environment
Server(name, command, args, env) ==
    [name |-> name, command |-> command, args |-> args, env |-> env]

DefaultSettings == [binary_path |-> "codex", mcp_servers |-> <<>>]

ModelName == "default"

PlainArg(s) == [lit |-> s, key |-> <<>>, kind |-> "", str |-> "", list |-> <<>>, table |-> {}]
ConfigArg(key, kind, str, list, table) ==
    [lit |-> "", key |-> key, kind |-> kind, str |-> str, list |-> list, table |-> table]

\* the arguments for one server with the args override always appended
ServerArgsAlwaysArgs(server) ==
    <<PlainArg("--config"),
      ConfigArg(<<"mcp_servers", server.name, "command">>, "String",
                server.command, <<>>, {})>>
    \o <<PlainArg("--config"),
         ConfigArg(<<"mcp_servers", server.name, "args">>, "Array",
                   "", server.args, {})>>
    \o (IF server.env # {}
        THEN <<PlainArg("--config"),
               ConfigArg(<<"mcp_servers", server.name, "env">>, "Table",
                         "", <<>>, server.env)>>
        ELSE <<>>)

\* the arguments appended for one auxiliary server
ServerArgs(server) ==
    <<PlainArg("--config"),
      ConfigArg(<<"mcp_servers", server.name, "command">>, "String",
                server.command, <<>>, {})>>
    \o (IF server.args # <<>>
        THEN <<PlainArg("--config"),
               ConfigArg(<<"mcp_servers", server.name, "args">>, "Array",
                         "", server.args, {})>>
        ELSE <<>>)
    \o (IF server.env # {}
        THEN <<PlainArg("--config"),
               ConfigArg(<<"mcp_servers", server.name, "env">>, "Table",
                         "", <<>>, server.env)>>
        ELSE <<>>)

RECURSIVE AllServerArgs(_)
AllServerArgs(servers) ==
    IF servers = <<>> THEN <<>>
    ELSE ServerArgs(Head(servers)) \o AllServerArgs(Tail(servers))

\* a command built without kill_on_drop
kill_on_drop_unset == FALSE

\* whether a dropped Child handle kills the process: .kill_on_drop(true)
kill_on_drop == TRUE

BuildCommand(s, model, key) ==
    [program |-> s.binary_path,
     args |-> <<PlainArg("exec"), PlainArg("--model"), PlainArg(model)>>
                \o AllServerArgs(s.mcp_servers),
     env |-> {<<"CODEX_API_KEY", key>>},
     stdin |-> "piped", stdout |-> "piped", stderr |-> "null",
     kill_on_drop |-> kill_on_drop]

NoCommand ==
    [program |-> "", args |-> <<>>, env |-> {}, stdin |-> "", stdout |-> "",
     stderr |-> "", kill_on_drop |-> FALSE]

\* the match with the Ok(None) arm proceeding on an empty key
CallOutcomeNoKeyCheck(alive, key) ==
    CASE ~alive -> "Other"
      [] OTHER -> "Proceed"

\* a spawn or write failure reported as a missing key
InvocationErrorAsNoApiKey(step) == "NoApiKey"

\* .map_err(|e| LanguageModelCompletionError::Other(e.into())) on a spawn or
\* write failure: the error class returned
InvocationError(step) == "Other"

\* cx.read_entity(&state, |state, _| state.api_key.clone()) and its match
CallOutcome(alive, key) ==
    CASE ~alive -> "Other"
      [] ~key.some -> "NoApiKey"
      [] OTHER -> "Proceed"

(***************************************************************************)
(* The external binary and the lines it prints                             *)
(***************************************************************************)
HelloLine == ObjectLine("{\"content\":\"hello\"}",
                        [NoFields EXCEPT !["content"] = JStr("hello")])
ToolLine == ObjectLine("{\"type\":\"tool_use\",\"id\":\"t1\",\"name\":\"run\",\"input\":{}}",
                       [NoFields EXCEPT !["type"] = JStr("tool_use"),
                                        !["id"] = JStr("t1"),
                                        !["name"] = JStr("run"),
                                        !["input"] = JOther("{}")])
PlainLine == RawLine("oops")

OutputLines == {HelloLine, ToolLine, PlainLine}

RECURSIVE SeqsUpTo(_, _)
SeqsUpTo(S, n) ==
    IF n = 0 THEN {<<>>}
    ELSE LET shorter == SeqsUpTo(S, n - 1)
         IN shorter \cup {Append(q, x) : q \in {r \in shorter : Len(r) = n - 1}, x \in S}

\* what the executable at binary_path does: whether it can be spawned, the
\* lines it prints, whether it reads its input to the end before printing,
\* and whether it stays alive after printing instead of exiting
Binary(lines, waits, hangs) ==
    [present |-> TRUE, lines |-> lines, waits |-> waits, hangs |-> hangs]
NoBinary == [present |-> FALSE, lines |-> <<>>, waits |-> FALSE, hangs |-> FALSE]

\* the mock of handles_request_response: cat >/dev/null; echo '{"content":"hello"}'
HelloBinary == Binary(<<HelloLine>>, TRUE, FALSE)

\* a binary that prints without reading its input
EchoBinary == Binary(<<HelloLine>>, FALSE, FALSE)

Binaries ==
    {NoBinary} \cup
    {Binary(ls, w, h) : ls \in SeqsUpTo(OutputLines, MaxLines), w \in BOOLEAN, h \in BOOLEAN}

(***************************************************************************)
(* The event stream: the closure given to stream::unfold                   *)
(***************************************************************************)
\* a closure that ignores its done flag
UnfoldReadsAlways(done) == TRUE

\* if done { None } else { lines.next().await ... }: whether a poll reads
UnfoldReads(done) == ~done

\* the match with the error arm leaving done unset
UnfoldNextErrorContinues(res, line) ==
    CASE res = "line" -> [item |-> parse_line(line), done |-> FALSE]
      [] res = "error" -> [item |-> ApiReadResponseError, done |-> FALSE]
      [] OTHER -> [item |-> StopEndTurn, done |-> TRUE]

\* the match with the line arm setting done
UnfoldNextStopsAfterLine(res, line) ==
    CASE res = "line" -> [item |-> parse_line(line), done |-> TRUE]
      [] res = "error" -> [item |-> ApiReadResponseError, done |-> TRUE]
      [] OTHER -> [item |-> StopEndTurn, done |-> TRUE]

\* the match with the end-of-output arm leaving done unset
UnfoldNextEofContinues(res, line) ==
    CASE res = "line" -> [item |-> parse_line(line), done |-> FALSE]
      [] res = "error" -> [item |-> ApiReadResponseError, done |-> TRUE]
      [] OTHER -> [item |-> StopEndTurn, done |-> FALSE]

\* the match on lines.next().await: the item yielded and the next done flag
UnfoldNext(res, line) ==
    CASE res = "line" -> [item |-> parse_line(line), done |-> FALSE]
      [] res = "error" -> [item |-> ApiReadResponseError, done |-> TRUE]
      [] OTHER -> [item |-> StopEndTurn, done |-> TRUE]

(***************************************************************************)
(* State                                                                   *)
(***************************************************************************)
VARIABLES
    appAlive,       \* the gpui App still exists (read_entity / update succeed)
    api_key,        \* State.api_key
    notifications,  \* number of cx.notify() calls on the State entity
    resets,         \* number of reset_credentials calls made
    file,           \* ~/.codex/config.toml
    settings,       \* CodexCliLanguageModel.settings
    binary,         \* the executable that settings.binary_path resolves to
    authPc,         \* per authenticate call: idle, spawned, read, done
    authContents,   \* per authenticate call: what read_to_string returned
    authResult,     \* per authenticate call: none, Ok, CredentialsNotFound, Other
    authEpoch,      \* per authenticate call: the resets made before it was called
    callPc,         \* per stream_completion call: idle, created, writing,
                    \*   returned, failed, cancelled
    callKey,        \* the api_key captured by the call
    callResult,     \* none, Ok, NoApiKey, Other
    request,        \* the call's request.messages
    cmd,            \* the command the call built
    childState,     \* none, running, exited, killed
    inputDone,      \* the child has read its standard input to the end
    written,        \* number of lines the child has printed
    stdinOpen,      \* the adapter holds the write end of the child's stdin
    stdinData,      \* what the adapter wrote to the child's stdin
    pipe,           \* lines printed by the child and not yet read
    readOpen,       \* the adapter holds the read end of the child's stdout
    handleOwned,    \* the Child handle has not been dropped
    killSent,       \* the adapter has killed the child
    streamState,    \* none, live, ended (returned None), dropped
    streamDone,     \* the done flag of the unfold state
    lastRead,       \* outcome of the last lines.next(): none, line, eof, error
    delivered,      \* items the consumer has received, in order
    consumed,       \* lines read from the pipe, in order
    line,           \* input of a stand-alone parse_line application
    event           \* its result

credVars == <<appAlive, api_key, notifications, resets, file>>
envVars == <<settings, binary>>
authVars == <<authPc, authContents, authResult, authEpoch>>
callVars == <<callPc, callKey, callResult, request, cmd>>
childVars == <<childState, inputDone, written, pipe>>
ioVars == <<stdinOpen, stdinData, readOpen, handleOwned, killSent>>
streamVars == <<streamState, streamDone, lastRead, delivered, consumed>>
parseVars == <<line, event>>

vars == <<credVars, envVars, authVars, callVars, childVars, ioVars, streamVars,
          parseVars>>

\* CodexCliLanguageModelProvider::new and create_model; nothing called yet
InitProvider ==
    /\ appAlive = TRUE
    /\ api_key = NoneKey
    /\ notifications = 0
    /\ resets = 0
    /\ settings = DefaultSettings
    /\ authPc = [t \in AuthTasks |-> "idle"]
    /\ authContents = [t \in AuthTasks |-> Unread]
    /\ authResult = [t \in AuthTasks |-> "none"]
    /\ authEpoch = [t \in AuthTasks |-> 0]
    /\ callPc = [c \in Calls |-> "idle"]
    /\ callKey = [c \in Calls |-> ""]
    /\ callResult = [c \in Calls |-> "none"]
    /\ request = [c \in Calls |-> <<>>]
    /\ cmd = [c \in Calls |-> NoCommand]
    /\ childState = [c \in Calls |-> "none"]
    /\ inputDone = [c \in Calls |-> FALSE]
    /\ written = [c \in Calls |-> 0]
    /\ stdinOpen = [c \in Calls |-> FALSE]
    /\ stdinData = [c \in Calls |-> <<>>]
    /\ pipe = [c \in Calls |-> <<>>]
    /\ readOpen = [c \in Calls |-> FALSE]
    /\ handleOwned = [c \in Calls |-> FALSE]
    /\ killSent = [c \in Calls |-> FALSE]
    /\ streamState = [c \in Calls |-> "none"]
    /\ streamDone = [c \in Calls |-> FALSE]
    /\ lastRead = [c \in Calls |-> "none"]
    /\ delivered = [c \in Calls |-> <<>>]
    /\ consumed = [c \in Calls |-> <<>>]

\* the provider right after construction, for every configuration file and
\* for a missing binary, the mock binary of the tests and an echoing binary
Init ==
    /\ InitProvider
    /\ file \in FileStates
    /\ binary \in {NoBinary, HelloBinary, EchoBinary}
    /\ line = PlainLine
    /\ event = NoEvent

\* the provider after its first authenticate has succeeded on a configuration
\* file holding api_key = "test", for every binary
AuthenticatedInit ==
    /\ appAlive = TRUE
    /\ api_key = SomeKey("test")
    /\ notifications = 1
    /\ resets = 0
    /\ file = FileParsed(SomeKey("test"))
    /\ authPc = [t \in AuthTasks |-> IF t = 1 THEN "done" ELSE "idle"]
    /\ authContents = [t \in AuthTasks |-> IF t = 1 THEN file ELSE Unread]
    /\ authResult = [t \in AuthTasks |-> IF t = 1 THEN "Ok" ELSE "none"]
    /\ authEpoch = [t \in AuthTasks |-> 0]
    /\ callPc = [c \in Calls |-> "idle"]
    /\ callKey = [c \in Calls |-> ""]
    /\ callResult = [c \in Calls |-> "none"]
    /\ request = [c \in Calls |-> <<>>]
    /\ cmd = [c \in Calls |-> NoCommand]
    /\ childState = [c \in Calls |-> "none"]
    /\ inputDone = [c \in Calls |-> FALSE]
    /\ written = [c \in Calls |-> 0]
    /\ stdinOpen = [c \in Calls |-> FALSE]
    /\ stdinData = [c \in Calls |-> <<>>]
    /\ pipe = [c \in Calls |-> <<>>]
    /\ readOpen = [c \in Calls |-> FALSE]
    /\ handleOwned = [c \in Calls |-> FALSE]
    /\ killSent = [c \in Calls |-> FALSE]
    /\ streamState = [c \in Calls |-> "none"]
    /\ streamDone = [c \in Calls |-> FALSE]
    /\ lastRead = [c \in Calls |-> "none"]
    /\ delivered = [c \in Calls |-> <<>>]
    /\ consumed = [c \in Calls |-> <<>>]
    /\ line = PlainLine
    /\ event = NoEvent

StreamInit ==
    /\ AuthenticatedInit
    /\ settings = DefaultSettings
    /\ binary \in Binaries

(***************************************************************************)
(* Credential operations                                                   *)
(***************************************************************************)
\* CodexCliLanguageModelProvider::authenticate -> State::authenticate, up to
\* the returned Task: ready when authenticated, else a spawned task
Authenticate(t) ==
    /\ appAlive
    /\ authPc[t] = "idle"
    /\ authEpoch' = [authEpoch EXCEPT ![t] = resets]
    /\ IF is_authenticated(api_key)
       THEN /\ authPc' = [authPc EXCEPT ![t] = "done"]
            /\ authResult' = [authResult EXCEPT ![t] = "Ok"]
       ELSE /\ authPc' = [authPc EXCEPT ![t] = "spawned"]
            /\ UNCHANGED authResult
    /\ UNCHANGED <<credVars, envVars, authContents, callVars, childVars, ioVars,
                   streamVars, parseVars>>

\* the spawned task up to the completion of read_to_string
AuthRead(t) ==
    /\ authPc[t] = "spawned"
    /\ IF ReadResult(file) = "Ok"
       THEN /\ authPc' = [authPc EXCEPT ![t] = "read"]
            /\ authContents' = [authContents EXCEPT ![t] = file]
            /\ UNCHANGED authResult
       ELSE /\ authPc' = [authPc EXCEPT ![t] = "done"]
            /\ authResult' = [authResult EXCEPT ![t] = ReadResult(file)]
            /\ UNCHANGED authContents
    /\ UNCHANGED <<credVars, envVars, authEpoch, callVars, childVars, ioVars,
                   streamVars, parseVars>>

\* the rest of the task: parse, take the key, this.update(..) storing it
AuthFinish(t) ==
    /\ authPc[t] = "read"
    /\ authPc' = [authPc EXCEPT ![t] = "done"]
    /\ IF ParseResult(authContents[t]) # "Ok"
       THEN /\ authResult' = [authResult EXCEPT ![t] = ParseResult(authContents[t])]
            /\ UNCHANGED <<api_key, notifications>>
       ELSE IF ~appAlive
       THEN /\ authResult' = [authResult EXCEPT ![t] = "Other"]
            /\ UNCHANGED <<api_key, notifications>>
       ELSE /\ api_key' = authContents[t].api_key
            /\ notifications' = notifications + 1
            /\ authResult' = [authResult EXCEPT ![t] = "Ok"]
    /\ UNCHANGED <<appAlive, resets, file, envVars, authContents, authEpoch, callVars,
                   childVars, ioVars, streamVars, parseVars>>

\* CodexCliLanguageModelProvider::reset_credentials
ResetCredentials ==
    /\ appAlive
    /\ resets < MaxResets
    /\ api_key' = ClearedKey(api_key)
    /\ notifications' = notifications + 1
    /\ resets' = resets + 1
    /\ UNCHANGED <<appAlive, file, envVars, authVars, callVars, childVars, ioVars,
                   streamVars, parseVars>>

\* the App is dropped while models and tasks are still around
AppDrop ==
    /\ appAlive
    /\ appAlive' = FALSE
    /\ UNCHANGED <<api_key, notifications, resets, file, envVars, authVars,
                   callVars, childVars, ioVars, streamVars, parseVars>>

(***************************************************************************)
(* stream_completion                                                       *)
(***************************************************************************)
\* the synchronous part: read the key, return a ready error or the future
StreamCompletion(c, req) ==
    /\ callPc[c] = "idle"
    /\ request' = [request EXCEPT ![c] = req]
    /\ IF CallOutcome(appAlive, api_key) = "Proceed"
       THEN /\ callPc' = [callPc EXCEPT ![c] = "created"]
            /\ callKey' = [callKey EXCEPT ![c] = api_key.v]
            /\ UNCHANGED callResult
       ELSE /\ callPc' = [callPc EXCEPT ![c] = "failed"]
            /\ callResult' = [callResult EXCEPT ![c] = CallOutcome(appAlive, api_key)]
            /\ UNCHANGED callKey
    /\ UNCHANGED <<credVars, envVars, authVars, cmd, childVars, ioVars, streamVars,
                   parseVars>>

\* first poll of the future: build the command and spawn it
Spawn(c) ==
    /\ callPc[c] = "created"
    /\ cmd' = [cmd EXCEPT ![c] = BuildCommand(settings, ModelName, callKey[c])]
    /\ IF binary.present
       THEN /\ callPc' = [callPc EXCEPT ![c] = "writing"]
            /\ childState' = [childState EXCEPT ![c] = "running"]
            /\ stdinOpen' = [stdinOpen EXCEPT ![c] = TRUE]
            /\ readOpen' = [readOpen EXCEPT ![c] = TRUE]
            /\ handleOwned' = [handleOwned EXCEPT ![c] = TRUE]
            /\ UNCHANGED callResult
       ELSE /\ callPc' = [callPc EXCEPT ![c] = "failed"]
            /\ callResult' = [callResult EXCEPT ![c] = InvocationError("spawn")]
            /\ UNCHANGED <<childState, stdinOpen, readOpen, handleOwned>>
    /\ UNCHANGED <<credVars, envVars, authVars, callKey, request, inputDone,
                   written, pipe, stdinData, killSent, streamVars, parseVars>>

\* the input handle left open after the write
drop_stdin_skipped(open) == open

\* drop(stdin): whether the child's input is still open afterwards
drop_stdin(open) == FALSE

\* write_all succeeds, stdin is dropped, the stream over stdout is built and
\* returned; the async block ends and its local `child` is dropped
WriteOk(c) ==
    /\ callPc[c] = "writing"
    /\ childState[c] = "running" \/ Prompt(request[c]) = <<>>
    /\ stdinData' = [stdinData EXCEPT ![c] = Prompt(request[c])]
    /\ stdinOpen' = [stdinOpen EXCEPT ![c] = drop_stdin(stdinOpen[c])]
    /\ streamState' = [streamState EXCEPT ![c] = "live"]
    /\ callPc' = [callPc EXCEPT ![c] = "returned"]
    /\ callResult' = [callResult EXCEPT ![c] = "Ok"]
    /\ handleOwned' = [handleOwned EXCEPT ![c] = FALSE]
    /\ killSent' = [killSent EXCEPT ![c] = cmd[c].kill_on_drop]
    /\ UNCHANGED <<credVars, envVars, authVars, callKey, request, cmd, childVars,
                   readOpen, streamDone, lastRead, delivered, consumed, parseVars>>

\* write_all fails (the child has gone): the error is returned through `?`
\* and stdin, stdout and the Child handle are dropped with the block
WriteFail(c) ==
    /\ callPc[c] = "writing"
    /\ childState[c] # "running"
    /\ Prompt(request[c]) # <<>>
    /\ stdinOpen' = [stdinOpen EXCEPT ![c] = FALSE]
    /\ readOpen' = [readOpen EXCEPT ![c] = FALSE]
    /\ callPc' = [callPc EXCEPT ![c] = "failed"]
    /\ callResult' = [callResult EXCEPT ![c] = InvocationError("write")]
    /\ handleOwned' = [handleOwned EXCEPT ![c] = FALSE]
    /\ killSent' = [killSent EXCEPT ![c] = cmd[c].kill_on_drop]
    /\ UNCHANGED <<credVars, envVars, authVars, callKey, request, cmd, childVars,
                   stdinData, streamVars, parseVars>>

\* the caller drops the future before it has completed
FutureDrop(c) ==
    /\ callPc[c] \in {"created", "writing"}
    /\ callPc' = [callPc EXCEPT ![c] = "cancelled"]
    /\ IF callPc[c] = "writing"
       THEN /\ stdinOpen' = [stdinOpen EXCEPT ![c] = FALSE]
            /\ readOpen' = [readOpen EXCEPT ![c] = FALSE]
            /\ handleOwned' = [handleOwned EXCEPT ![c] = FALSE]
            /\ killSent' = [killSent EXCEPT ![c] = cmd[c].kill_on_drop]
       ELSE UNCHANGED <<stdinOpen, readOpen, handleOwned, killSent>>
    /\ UNCHANGED <<credVars, envVars, authVars, callKey, callResult, request, cmd,
                   childVars, stdinData, streamVars, parseVars>>

(***************************************************************************)
(* The event stream                                                        *)
(***************************************************************************)
\* every stream reading the output of the first child
StdoutOfFirst(c) == 1

\* child.stdout.take(): the child whose output the stream of a call reads
StdoutOf(c) == c

\* what lines.next() can return now: a buffered line, end-of-output once the
\* pipe is empty and its write end closed, or an I/O error
ReadOutcomes(c) ==
    (IF pipe[StdoutOf(c)] # <<>> THEN {"line"} ELSE {})
    \cup (IF pipe[StdoutOf(c)] = <<>> /\ childState[StdoutOf(c)] # "running"
          THEN {"eof"} ELSE {})
    \cup {"error"}

\* the consumer asks for the next item (one step of the unfold closure)
Poll(c) ==
    /\ streamState[c] = "live"
    /\ IF UnfoldReads(streamDone[c])
       THEN \E res \in ReadOutcomes(c) :
              LET ln == IF res = "line" THEN Head(pipe[StdoutOf(c)]) ELSE PlainLine
                  step == UnfoldNext(res, ln)
              IN /\ lastRead' = [lastRead EXCEPT ![c] = res]
                 /\ delivered' = [delivered EXCEPT ![c] = Append(@, step.item)]
                 /\ streamDone' = [streamDone EXCEPT ![c] = step.done]
                 /\ IF res = "line"
                    THEN /\ pipe' = [pipe EXCEPT ![StdoutOf(c)] = Tail(@)]
                         /\ consumed' = [consumed EXCEPT ![c] = Append(@, ln)]
                    ELSE UNCHANGED <<pipe, consumed>>
                 /\ UNCHANGED streamState
       ELSE /\ streamState' = [streamState EXCEPT ![c] = "ended"]
            /\ UNCHANGED <<streamDone, lastRead, delivered, consumed, pipe>>
    /\ UNCHANGED <<credVars, envVars, authVars, callVars, childState, inputDone,
                   written, ioVars, parseVars>>

\* the consumer drops the stream before it has returned None
StreamDrop(c) ==
    /\ streamState[c] = "live"
    /\ streamState' = [streamState EXCEPT ![c] = "dropped"]
    /\ readOpen' = [readOpen EXCEPT ![c] = FALSE]
    /\ UNCHANGED <<credVars, envVars, authVars, callVars, childVars, stdinOpen,
                   stdinData, handleOwned, killSent, streamDone, lastRead,
                   delivered, consumed, parseVars>>

(***************************************************************************)
(* The child process                                                       *)
(***************************************************************************)
\* the child reads its standard input to end-of-input
ChildReadInput(c) ==
    /\ childState[c] = "running"
    /\ ~inputDone[c]
    /\ ~stdinOpen[c]
    /\ inputDone' = [inputDone EXCEPT ![c] = TRUE]
    /\ UNCHANGED <<credVars, envVars, authVars, callVars, childState, written,
                   pipe, ioVars, streamVars, parseVars>>

\* the child prints its next line; with no reader left the write kills it
ChildWrite(c) ==
    /\ childState[c] = "running"
    /\ binary.waits => inputDone[c]
    /\ written[c] < Len(binary.lines)
    /\ IF readOpen[c]
       THEN /\ pipe' = [pipe EXCEPT ![c] = Append(@, binary.lines[written[c] + 1])]
            /\ written' = [written EXCEPT ![c] = @ + 1]
            /\ UNCHANGED childState
       ELSE /\ childState' = [childState EXCEPT ![c] = "exited"]
            /\ UNCHANGED <<pipe, written>>
    /\ UNCHANGED <<credVars, envVars, authVars, callVars, inputDone, ioVars,
                   streamVars, parseVars>>

\* the child exits by itself
ChildExit(c) ==
    /\ childState[c] = "running"
    /\ binary.waits => inputDone[c]
    /\ written[c] = Len(binary.lines)
    /\ ~binary.hangs
    /\ childState' = [childState EXCEPT ![c] = "exited"]
    /\ UNCHANGED <<credVars, envVars, authVars, callVars, inputDone, written, pipe,
                   ioVars, streamVars, parseVars>>

\* the kill issued by the dropped handle takes effect
ChildKilled(c) ==
    /\ childState[c] = "running"
    /\ killSent[c]
    /\ childState' = [childState EXCEPT ![c] = "killed"]
    /\ UNCHANGED <<credVars, envVars, authVars, callVars, inputDone, written, pipe,
                   ioVars, streamVars, parseVars>>

(***************************************************************************)
(* Specifications                                                          *)
(***************************************************************************)
\* one stream_completion call together with the credential operations
Next ==
    \/ \E t \in AuthTasks : Authenticate(t)
    \/ \E t \in AuthTasks : AuthRead(t)
    \/ \E t \in AuthTasks : AuthFinish(t)
    \/ ResetCredentials
    \/ AppDrop
    \/ \E c \in Solo, req \in Requests : StreamCompletion(c, req)
    \/ \E c \in Solo : Spawn(c)
    \/ \E c \in Solo : WriteOk(c)
    \/ \E c \in Solo : WriteFail(c)
    \/ \E c \in Solo : FutureDrop(c)
    \/ \E c \in Solo : Poll(c)
    \/ \E c \in Solo : StreamDrop(c)
    \/ \E c \in Solo : ChildReadInput(c)
    \/ \E c \in Solo : ChildWrite(c)
    \/ \E c \in Solo : ChildExit(c)
    \/ \E c \in Solo : ChildKilled(c)

Spec == Init /\ [][Next]_vars

\* one stream_completion call on an authenticated provider, for every binary
StreamNext ==
    \/ \E c \in Solo, req \in Requests : StreamCompletion(c, req)
    \/ \E c \in Solo : Spawn(c)
    \/ \E c \in Solo : WriteOk(c)
    \/ \E c \in Solo : WriteFail(c)
    \/ \E c \in Solo : FutureDrop(c)
    \/ \E c \in Solo : Poll(c)
    \/ \E c \in Solo : StreamDrop(c)
    \/ \E c \in Solo : ChildReadInput(c)
    \/ \E c \in Solo : ChildWrite(c)
    \/ \E c \in Solo : ChildExit(c)
    \/ \E c \in Solo : ChildKilled(c)

StreamSpec == StreamInit /\ [][StreamNext]_vars

\* a kill that has been issued is delivered by the operating system
FairStreamSpec == StreamSpec /\ \A c \in Solo : WF_vars(ChildKilled(c))

(***************************************************************************)
(* One call whose consumer keeps pulling until the stream ends             *)
(***************************************************************************)
\* a poll whose read does not fail: possible once a line is buffered, the
\* output has ended or the closure is done
PollReady(c) ==
    /\ Poll(c)
    /\ lastRead'[c] = "error" => lastRead[c] = "error"

PullNext ==
    \/ \E c \in Solo, req \in Requests : StreamCompletion(c, req)
    \/ \E c \in Solo : Spawn(c)
    \/ \E c \in Solo : WriteOk(c)
    \/ \E c \in Solo : WriteFail(c)
    \/ \E c \in Solo : Poll(c)
    \/ \E c \in Solo : ChildReadInput(c)
    \/ \E c \in Solo : ChildWrite(c)
    \/ \E c \in Solo : ChildExit(c)
    \/ \E c \in Solo : ChildKilled(c)

PullSafeSpec == StreamInit /\ [][PullNext]_vars

\* the consumer polls whenever a read can complete, the child runs whenever it
\* can, and a kill that has been issued is delivered
PullSpec ==
    PullSafeSpec /\ \A c \in Solo : /\ WF_vars(PollReady(c))
                                     /\ WF_vars(ChildReadInput(c))
                                     /\ WF_vars(ChildWrite(c))
                                     /\ WF_vars(ChildExit(c))
                                     /\ WF_vars(ChildKilled(c))

(***************************************************************************)
(* Two concurrent calls on one authenticated provider                      *)
(***************************************************************************)
\* the mock binary, a binary that does not wait for its input, and a binary
\* that prints two lines and never exits by itself
ConcBinaries == {HelloBinary, EchoBinary, Binary(<<HelloLine, ToolLine>>, FALSE, TRUE)}

ConcInit ==
    /\ AuthenticatedInit
    /\ settings = DefaultSettings
    /\ binary \in ConcBinaries

ConcNext ==
    \/ \E c \in Calls, req \in Requests : StreamCompletion(c, req)
    \/ \E c \in Calls : Spawn(c)
    \/ \E c \in Calls : WriteOk(c)
    \/ \E c \in Calls : WriteFail(c)
    \/ \E c \in Calls : FutureDrop(c)
    \/ \E c \in Calls : Poll(c)
    \/ \E c \in Calls : StreamDrop(c)
    \/ \E c \in Calls : ChildReadInput(c)
    \/ \E c \in Calls : ChildWrite(c)
    \/ \E c \in Calls : ChildExit(c)
    \/ \E c \in Calls : ChildKilled(c)

ConcSpec == ConcInit /\ [][ConcNext]_vars

(***************************************************************************)
(* Prompt serialization: one call, for every request                       *)
(***************************************************************************)
Contents == {"hello", "bye"}

\* request.messages: every sequence of up to MaxMessages messages
PromptRequests ==
    SeqsUpTo({Message(r, t) : r \in Roles, t \in Contents}, MaxMessages)

PromptInit == StreamInit /\ binary = HelloBinary

PromptNext ==
    \/ \E c \in Solo, req \in PromptRequests : StreamCompletion(c, req)
    \/ \E c \in Solo : Spawn(c)
    \/ \E c \in Solo : WriteOk(c)
    \/ \E c \in Solo : ChildReadInput(c)

PromptSpec == PromptInit /\ [][PromptNext]_vars

(***************************************************************************)
(* Command construction: one call, for every settings value                *)
(***************************************************************************)
ServerNames == {"a", "b", "c"}

Servers ==
    {Server(n, "srv", as, ev) :
        n \in ServerNames, as \in {<<>>, <<"x", "y">>}, ev \in {{}, {<<"K", "V">>}}}

\* settings.mcp_servers in iteration order: up to MaxServers servers with
\* different names
ServerLists ==
    {q \in SeqsUpTo(Servers, MaxServers) :
        \A i, j \in 1..Len(q) : i # j => q[i].name # q[j].name}

BuildSettings == {[binary_path |-> "codex", mcp_servers |-> q] : q \in ServerLists}

BuildInit ==
    /\ AuthenticatedInit
    /\ settings \in BuildSettings
    /\ binary = HelloBinary

BuildNext ==
    \/ \E c \in Solo, req \in Requests : StreamCompletion(c, req)
    \/ \E c \in Solo : Spawn(c)

BuildSpec == BuildInit /\ [][BuildNext]_vars

(***************************************************************************)
(* parse_line applied to one line                                          *)
(***************************************************************************)
TypeMembers == {Absent, JStr("tool"), JStr("tool_use"), JStr("message"), JOther("1")}
IdMembers == {Absent, JStr("t1"), JOther("7")}
NameMembers == {Absent, JStr("run"), JOther("null")}
ToolNameMembers == {Absent, JStr("exec"), JOther("null")}
InputMembers == {Absent, JOther("{}"), JOther("null")}
RawInputMembers == {Absent, JStr("{"), JOther("0")}
CompleteMembers == {Absent, JBool(TRUE), JBool(FALSE), JOther("1")}
ContentMembers == {Absent, JStr("hello"), JOther("[]")}
TextMembers == {Absent, JStr("hi"), JOther("[]")}

ObjectMembers ==
    {[f \in Fields |->
        CASE f = "type" -> ty [] f = "id" -> id [] f = "name" -> nm
          [] f = "tool_name" -> tn [] f = "input" -> inp [] f = "raw_input" -> ri
          [] f = "is_input_complete" -> ic [] f = "content" -> co [] OTHER -> tx] :
        ty \in TypeMembers, id \in IdMembers, nm \in NameMembers,
        tn \in ToolNameMembers, inp \in InputMembers, ri \in RawInputMembers,
        ic \in CompleteMembers, co \in ContentMembers, tx \in TextMembers}

\* the lines parse_line is applied to: every object over the members above
\* (its text is the rendering of its members), scalars and non-JSON text
ParseLines ==
    {ObjectLine(ToString(fs), fs) : fs \in ObjectMembers}
        \cup {ScalarLine("42"), ScalarLine("\"content\""), RawLine("oops"), RawLine(""),
              RawLine("{\"content\":")}

ParseInit ==
    /\ InitProvider
    /\ file = FileMissing
    /\ binary = NoBinary
    /\ line \in ParseLines
    /\ event = NoEvent

\* let event = parse_line(&line)
ParseLine ==
    /\ event = NoEvent
    /\ event' = parse_line(line)
    /\ UNCHANGED <<credVars, envVars, authVars, callVars, childVars, ioVars,
                   streamVars, line>>

ParseNext == ParseLine

ParseSpec == ParseInit /\ [][ParseNext]_vars

(***************************************************************************)
(* Properties                                                              *)
(***************************************************************************)
LastOf(q) == q[Len(q)]

IsTerminal(e) == e.tag \in {"Stop", "Error"}

\* the stream of call c has delivered its terminal item
TerminalDelivered(c) == delivered[c] # <<>> /\ IsTerminal(LastOf(delivered[c]))

CountOf(q, e) == Cardinality({i \in 1..Len(q) : q[i] = e})

\* C1: a stream_completion call made while the credential state exists and holds
\* no secret returns NoApiKey and changes nothing else: no command is built, no
\* child spawned, no stream created, no event delivered, the credential state and
\* its notification count unchanged; and a call that returned NoApiKey never
\* gets a child or a stream later.
C1_CallStep(c) ==
    (callPc[c] = "idle" /\ callPc'[c] # "idle" /\ appAlive /\ ~api_key.some)
        => /\ callPc'[c] = "failed"
           /\ callResult'[c] = "NoApiKey"
           /\ UNCHANGED <<credVars, authVars, cmd, childVars, ioVars, streamVars>>

C1_After(c) ==
    callResult[c] = "NoApiKey"
        => /\ callPc[c] = "failed"
           /\ cmd[c] = NoCommand
           /\ childState[c] = "none"
           /\ streamState[c] = "none"
           /\ delivered[c] = <<>>

C1_NoKeyFailsFast ==
    /\ [](\A c \in Calls : C1_After(c))
    /\ [][\A c \in Calls : C1_CallStep(c)]_vars

\* a call with a one-message request was refused for want of a secret after a
\* reset had cleared one
C1_Witness ==
    \E c \in Calls :
        /\ callResult[c] = "NoApiKey"
        /\ request[c] = OneUserRequest
        /\ resets = 1
        /\ notifications = 2

\* C2: while the stream of a call is live and has not delivered its terminal
\* item, the Child handle is still owned and no kill has been issued.
C2_HandleOwnedWhileLive ==
    \A c \in Calls :
        (streamState[c] = "live" /\ ~TerminalDelivered(c))
            => (handleOwned[c] /\ ~killSent[c])

\* C3: once a call is over without its stream having delivered the terminal
\* item (the stream was dropped early, the call failed after the spawn, or its
\* future was dropped after the spawn), the child eventually is not running.
CallAbandoned(c) ==
    /\ childState[c] # "none"
    /\ \/ streamState[c] = "dropped" /\ ~TerminalDelivered(c)
       \/ callPc[c] \in {"failed", "cancelled"}

C3_NoOrphan ==
    \A c \in Calls : CallAbandoned(c) ~> (childState[c] # "running")

\* the stream over a binary that never exits was dropped before any terminal
\* item and the child was killed
C3_Witness ==
    \E c \in Calls :
        /\ binary.hangs
        /\ streamState[c] = "dropped"
        /\ ~TerminalDelivered(c)
        /\ childState[c] = "killed"

\* C4: with api_key = "test" in the configuration file and authenticate having
\* succeeded, a one-message user request against the mock binary (read the
\* input, print {"content":"hello"}, exit) whose stream was read to its end
\* without a read error has delivered exactly Text("hello"), Stop(EndTurn).
C4_HelloThenStop ==
    \A c \in Calls :
        ( /\ binary = HelloBinary
          /\ file = FileParsed(SomeKey("test"))
          /\ callKey[c] = "test"
          /\ request[c] = OneUserRequest
          /\ streamState[c] = "ended"
          /\ lastRead[c] # "error" )
            => delivered[c] = <<Text("hello"), StopEndTurn>>

\* C5: once a read has returned end-of-output, the stream has delivered exactly
\* one Stop(EndTurn), as its last item and with no read error before it; from
\* then on nothing more is delivered or read, and the next poll ends the stream.
C5_AtEof(c) ==
    lastRead[c] = "eof"
        => /\ streamDone[c]
           /\ delivered[c] # <<>>
           /\ LastOf(delivered[c]) = StopEndTurn
           /\ CountOf(delivered[c], StopEndTurn) = 1
           /\ CountOf(delivered[c], ApiReadResponseError) = 0

C5_AfterEof(c) ==
    lastRead[c] = "eof"
        => /\ delivered'[c] = delivered[c]
           /\ consumed'[c] = consumed[c]
           /\ pipe'[c] = pipe[c]
           /\ lastRead'[c] = lastRead[c]
           /\ streamState'[c] \in {streamState[c], "ended", "dropped"}

C5_ExactlyOneStop ==
    /\ [](\A c \in Calls : C5_AtEof(c))
    /\ [][\A c \in Calls : C5_AfterEof(c)]_vars

\* two lines, then Stop(EndTurn), then the end of the stream
C5_Witness ==
    \E c \in Calls :
        /\ lastRead[c] = "eof"
        /\ Len(delivered[c]) = 3
        /\ streamState[c] = "ended"

\* C6: once a read has failed, the stream has delivered one read-error item, as
\* its last item, with no Stop(EndTurn); the items before it are the decodings
\* of the lines read; delivered items are never changed or removed, and nothing
\* is delivered or read after the error.
C6_AtError(c) ==
    lastRead[c] = "error"
        => /\ streamDone[c]
           /\ delivered[c] # <<>>
           /\ LastOf(delivered[c]) = ApiReadResponseError
           /\ CountOf(delivered[c], ApiReadResponseError) = 1
           /\ CountOf(delivered[c], StopEndTurn) = 0
           /\ Len(consumed[c]) = Len(delivered[c]) - 1
           /\ \A i \in 1..Len(consumed[c]) : delivered[c][i] = parse_line(consumed[c][i])

C6_Step(c) ==
    /\ Len(delivered'[c]) >= Len(delivered[c])
    /\ SubSeq(delivered'[c], 1, Len(delivered[c])) = delivered[c]
    /\ lastRead[c] = "error"
        => /\ delivered'[c] = delivered[c]
           /\ consumed'[c] = consumed[c]
           /\ lastRead'[c] = lastRead[c]
           /\ streamState'[c] \in {streamState[c], "ended", "dropped"}

C6_ErrorEndsStream ==
    /\ [](\A c \in Calls : C6_AtError(c))
    /\ [][\A c \in Calls : C6_Step(c)]_vars

\* a line was delivered, then the read error, then the stream ended
C6_Witness ==
    \E c \in Calls :
        /\ lastRead[c] = "error"
        /\ Len(delivered[c]) = 2
        /\ delivered[c][1] = parse_line(consumed[c][1])
        /\ streamState[c] = "ended"

\* C7: the lines read so far followed by the lines waiting in the pipe are the
\* lines the child has printed, in order; the i-th item delivered is the
\* decoding of the i-th line read; a stream that ended without a read error has
\* read every printed line; and a line leaves the pipe only in a step that
\* delivers its decoding as the next item.
C7_Lines(c) ==
    /\ consumed[c] \o pipe[c] = SubSeq(binary.lines, 1, written[c])
    /\ Len(consumed[c]) <= Len(delivered[c])
    /\ Len(delivered[c]) <= Len(consumed[c]) + 1
    /\ \A i \in 1..Len(consumed[c]) : delivered[c][i] = parse_line(consumed[c][i])
    /\ (streamState[c] = "ended" /\ lastRead[c] # "error")
          => /\ lastRead[c] = "eof"
             /\ pipe[c] = <<>>
             /\ delivered[c] = [i \in 1..Len(consumed[c]) |-> parse_line(consumed[c][i])]
                                  \o <<StopEndTurn>>

C7_ReadStep(c) ==
    (consumed'[c] # consumed[c] \/ Len(pipe'[c]) < Len(pipe[c]))
        => /\ pipe[c] # <<>>
           /\ pipe'[c] = Tail(pipe[c])
           /\ consumed'[c] = Append(consumed[c], Head(pipe[c]))
           /\ delivered'[c] = Append(delivered[c], parse_line(Head(pipe[c])))

C7_OneEventPerLine ==
    /\ [](\A c \in Calls : C7_Lines(c))
    /\ [][\A c \in Calls : C7_ReadStep(c)]_vars

\* two different lines were printed and delivered in order before the end
C7_Witness ==
    \E c \in Calls :
        /\ Len(consumed[c]) = 2
        /\ consumed[c][1] # consumed[c][2]
        /\ delivered[c] = <<parse_line(binary.lines[1]), parse_line(binary.lines[2]),
                            StopEndTurn>>

\* the tool-use record of the claims: a record of type "tool" or "tool_use"
\* with a text id, a text name under name or else under tool_name, and an input
ClaimedName(ln) ==
    IF IsStr(Get(ln, "name")) THEN Get(ln, "name").v ELSE Get(ln, "tool_name").v

IsToolUseRecord(ln) ==
    /\ ln.valid
    /\ ln.object
    /\ IsToolType(ln)
    /\ IsStr(Get(ln, "id"))
    /\ IsStr(Get(ln, "name")) \/ IsStr(Get(ln, "tool_name"))
    /\ IsPresent(Get(ln, "input"))

\* C8: a tool-use record is decoded as ToolUse with its id, its name, its input
\* unchanged, its raw-text input (empty when absent) and its completeness flag
\* (true when absent); a record of type "tool" or "tool_use" that lacks one of
\* id, name and input is decoded as Text.
C8_ToolUseDecoded ==
    event # NoEvent
        => IF IsToolUseRecord(line)
           THEN /\ event.tag = "ToolUse"
                /\ event.id = Get(line, "id").v
                /\ event.name = ClaimedName(line)
                /\ event.input = Get(line, "input")
                /\ IsStr(Get(line, "raw_input")) => event.raw_input = Get(line, "raw_input").v
                /\ ~IsPresent(Get(line, "raw_input")) => event.raw_input = ""
                /\ IsBool(Get(line, "is_input_complete"))
                      => event.is_input_complete = (Get(line, "is_input_complete").v = "true")
                /\ ~IsPresent(Get(line, "is_input_complete")) => event.is_input_complete
           ELSE event.tag = "Text"

\* C9: a line that is not a tool-use record is decoded as exactly one Text
\* event: of its text content member if it is a record with one, else of its
\* text text member if it has one, else of the line itself.
C9_TextByPrecedence ==
    (event # NoEvent /\ ~IsToolUseRecord(line))
        => event = IF line.valid /\ IsStr(Get(line, "content"))
                   THEN Text(Get(line, "content").v)
                   ELSE IF line.valid /\ IsStr(Get(line, "text"))
                   THEN Text(Get(line, "text").v)
                   ELSE Text(line.raw)

\* a record of tool type without an id, with text under both content and text,
\* was decoded as the Text of its content
C9_Witness ==
    /\ IsToolType(line)
    /\ ~IsPresent(Get(line, "id"))
    /\ IsStr(Get(line, "content"))
    /\ IsStr(Get(line, "text"))
    /\ event = Text("hello")

\* C10: an authenticate call made while a secret is stored completes at once
\* with success and reads nothing, stores nothing and notifies nobody; a call
\* made on an empty store with a configuration file holding an api_key reads
\* the file, and (the App still existing) stores that key, notifies once and
\* succeeds.
FileHasKey(f) == f.kind = "parsed" /\ f.api_key.some

C10_Step(t) ==
    /\ (authPc[t] = "idle" /\ authPc'[t] # "idle" /\ api_key.some)
          => /\ authPc'[t] = "done"
             /\ authResult'[t] = "Ok"
             /\ authContents'[t] = Unread
             /\ api_key' = api_key
             /\ notifications' = notifications
    /\ (authPc[t] = "spawned" /\ authPc'[t] # "spawned" /\ FileHasKey(file))
          => /\ authPc'[t] = "read"
             /\ authContents'[t] = file
    /\ (authPc[t] = "read" /\ authPc'[t] # "read" /\ FileHasKey(authContents[t]) /\ appAlive)
          => /\ authPc'[t] = "done"
             /\ authResult'[t] = "Ok"
             /\ api_key' = authContents[t].api_key
             /\ notifications' = notifications + 1

C10_Done(t) ==
    (authPc[t] = "done" /\ FileHasKey(file) /\ appAlive) => authResult[t] = "Ok"

C10_AuthenticateIdempotent ==
    /\ [](\A t \in AuthTasks : C10_Done(t))
    /\ [][\A t \in AuthTasks : C10_Step(t)]_vars

\* a first authenticate read the file and stored the key, a second one then
\* completed without reading, and observers were notified once
C10_Witness ==
    \E t, u \in AuthTasks :
        /\ authResult[t] = "Ok"
        /\ authContents[t] = FileParsed(SomeKey("test"))
        /\ authPc[u] = "done"
        /\ authResult[u] = "Ok"
        /\ authContents[u] = Unread
        /\ api_key = SomeKey("test")
        /\ notifications = 1

\* C11: an authenticate call that fails reports CredentialsNotFound for a
\* missing file and for a parsed file without api_key, and the generic error
\* for a malformed file; the failing step stores nothing and notifies nobody,
\* and with such a file the store is never authenticated.
C11_Step(t) ==
    /\ (authPc[t] = "spawned" /\ authPc'[t] = "done")
          => /\ file = FileMissing => authResult'[t] = "CredentialsNotFound"
             /\ api_key' = api_key
             /\ notifications' = notifications
    /\ (authPc[t] = "read" /\ authPc'[t] = "done" /\ ~FileHasKey(authContents[t]))
          => /\ authContents[t] = FileParsed(NoneKey)
                   => authResult'[t] = "CredentialsNotFound"
             /\ authContents[t] = FileMalformed => authResult'[t] = "Other"
             /\ api_key' = api_key
             /\ notifications' = notifications

C11_Failed(t) ==
    (authPc[t] = "done" /\ file \in {FileMissing, FileMalformed, FileParsed(NoneKey)})
        => /\ authResult[t] = IF file = FileMalformed THEN "Other"
                              ELSE "CredentialsNotFound"
           /\ ~is_authenticated(api_key)
           /\ notifications = resets

C11_FailureLeavesUnauthenticated ==
    /\ [](\A t \in AuthTasks : C11_Failed(t))
    /\ [][\A t \in AuthTasks : C11_Step(t)]_vars

\* a file without api_key was read and parsed, and the call failed
C11_Witness ==
    \E t \in AuthTasks :
        /\ authPc[t] = "done"
        /\ authContents[t] = FileParsed(NoneKey)
        /\ authResult[t] = "CredentialsNotFound"
        /\ ~is_authenticated(api_key)
        /\ notifications = 0

\* C12: reset_credentials can be called in every state in which the App exists,
\* whatever the authenticate tasks and the call are doing; the state right
\* after it holds no secret, and a stream_completion call made while no secret
\* is held after a reset returns NoApiKey.
C12_Step ==
    /\ resets' # resets => (api_key' = NoneKey /\ ~is_authenticated(api_key'))
    /\ \A c \in Calls :
          (callPc[c] = "idle" /\ callPc'[c] # "idle" /\ appAlive /\ resets > 0
             /\ ~is_authenticated(api_key))
              => callResult'[c] = "NoApiKey"

C12_ResetClears ==
    /\ []((appAlive /\ resets < MaxResets) => ENABLED ResetCredentials)
    /\ [][C12_Step]_vars

\* a secret was stored, a reset cleared it while another authenticate was in
\* flight, and a call made then was refused
C12_Witness ==
    \E t \in AuthTasks, c \in Calls :
        /\ authPc[t] = "read"
        /\ resets = 1
        /\ notifications = 2
        /\ ~is_authenticated(api_key)
        /\ callResult[c] = "NoApiKey"

\* C13: a call whose binary cannot be spawned, or whose prompt write fails,
\* ends failed with the Other error; it has no stream and no delivered item,
\* the credential state is unchanged by the failing step, and a failed call
\* stays failed and spawns nothing more.
C13_Step(c) ==
    /\ (callPc[c] = "created" /\ callPc'[c] \notin {"created", "cancelled"}
          /\ ~binary.present)
          => /\ callPc'[c] = "failed"
             /\ callResult'[c] = "Other"
             /\ childState'[c] = "none"
             /\ UNCHANGED credVars
    /\ (callPc[c] = "writing" /\ callPc'[c] = "failed")
          => /\ callResult'[c] = "Other"
             /\ UNCHANGED credVars
    /\ callPc[c] = "failed"
          => /\ callPc'[c] = "failed"
             /\ callResult'[c] = callResult[c]
             /\ cmd'[c] = cmd[c]
             /\ childState'[c] # childState[c] => childState[c] = "running"

C13_Failed(c) ==
    callPc[c] = "failed" => (streamState[c] = "none" /\ delivered[c] = <<>>)

C13_InvocationError ==
    /\ [](\A c \in Calls : C13_Failed(c))
    /\ [][\A c \in Calls : C13_Step(c)]_vars

\* the child had exited before the prompt was written: the write failed
C13_Witness ==
    \E c \in Calls :
        /\ callPc[c] = "failed"
        /\ callResult[c] = "Other"
        /\ childState[c] = "exited"
        /\ request[c] = OneUserRequest
        /\ api_key = SomeKey("test")

\* the role prefixes as the claims list them
ClaimedRoles == {"System", "User", "Assistant", "Tool"}

ClaimedPrefix(role) ==
    CASE role = "System" -> "system:"
      [] role = "User" -> "user:"
      [] role = "Assistant" -> "assistant:"
      [] role = "Tool" -> "tool:"

\* the text written to the child is, message by message and in request order,
\* the prefix of the role, a space, the content and a newline
SerializedInOrder(c) ==
    /\ Len(stdinData[c]) = 4 * Len(request[c])
    /\ \A i \in 1..Len(request[c]) :
          /\ stdinData[c][4 * i - 3] = ClaimedPrefix(request[c][i].role)
          /\ stdinData[c][4 * i - 2] = " "
          /\ stdinData[c][4 * i - 1] = request[c][i].content
          /\ stdinData[c][4 * i] = "\n"

\* C14 as stated: the written prompt is the in-order serialization, and each of
\* the four roles system, user, assistant and tool is a role a message of a
\* request can have.
C14_FourRolePrompt ==
    \A c \in Calls :
        callPc[c] = "returned"
            => /\ SerializedInOrder(c)
               /\ \A r \in ClaimedRoles : r \in Roles

\* C14 as amended: the written prompt is the in-order serialization, one line
\* per message, and every message has one of the three roles system, user and
\* assistant (a request has no tool role).
C14_ThreeRolePrompt ==
    \A c \in Calls :
        callPc[c] = "returned"
            => /\ SerializedInOrder(c)
               /\ \A i \in 1..Len(request[c]) :
                     request[c][i].role \in {"System", "User", "Assistant"}

\* a two-message request, assistant first and user second with different
\* contents, was written
C14_Witness ==
    \E c \in Calls :
        /\ callPc[c] = "returned"
        /\ request[c] = <<Message("Assistant", "bye"), Message("User", "hello")>>
        /\ stdinData[c] = <<"assistant:", " ", "bye", "\n", "user:", " ", "hello", "\n">>

\* positions of the --config overrides among the arguments of a command
OverrideAt(args) == {i \in 1..Len(args) : args[i].key # <<>>}

\* the position of the override of a member of a server, 0 when there is none
OverridePos(args, name, member) ==
    LET at == {i \in OverrideAt(args) : args[i].key = <<"mcp_servers", name, member>>}
    IN IF at = {} THEN 0 ELSE CHOOSE i \in at : TRUE

\* C15: the command of a call is the binary path of the settings with the
\* arguments exec, --model and the model name, followed only by --config
\* overrides: for each server one for its command, one for its arguments iff
\* there are any and one for its environment iff it is non-empty, in this
\* order and each once; the secret held at the call is the CODEX_API_KEY
\* variable of the child.
C15_Command(c) ==
    LET args == cmd[c].args
        servers == settings.mcp_servers
    IN /\ cmd[c].program = settings.binary_path
       /\ Len(args) >= 3
       /\ SubSeq(args, 1, 3) = <<PlainArg("exec"), PlainArg("--model"), PlainArg(ModelName)>>
       /\ Len(args) = 3 + 2 * Cardinality(OverrideAt(args))
       /\ \A i \in OverrideAt(args) :
             /\ i > 4
             /\ args[i - 1] = PlainArg("--config")
             /\ \E k \in 1..Len(servers) : args[i].key[2] = servers[k].name
             /\ \A j \in OverrideAt(args) : args[j].key = args[i].key => j = i
       /\ \A k \in 1..Len(servers) :
             LET sv == servers[k]
                 pc == OverridePos(args, sv.name, "command")
                 pa == OverridePos(args, sv.name, "args")
                 pe == OverridePos(args, sv.name, "env")
             IN /\ pc > 0
                /\ args[pc].str = sv.command
                /\ (pa > 0) <=> (sv.args # <<>>)
                /\ pa > 0 => (args[pa].list = sv.args /\ pa > pc)
                /\ (pe > 0) <=> (sv.env # {})
                /\ pe > 0 => (args[pe].table = sv.env /\ pe > pc /\ pe > pa)
       /\ cmd[c].env = {<<"CODEX_API_KEY", api_key.v>>}

C15_InvocationBuilt ==
    \A c \in Calls : cmd[c] # NoCommand => C15_Command(c)

\* a command was built for two servers, the first with arguments and no
\* environment, the second with an environment and no arguments
C15_Witness ==
    \E c \in Calls :
        /\ cmd[c] # NoCommand
        /\ Len(settings.mcp_servers) = 2
        /\ settings.mcp_servers[1].args # <<>>
        /\ settings.mcp_servers[1].env = {}
        /\ settings.mcp_servers[2].args = <<>>
        /\ settings.mcp_servers[2].env # {}
        /\ Len(cmd[c].args) = 11

\* C16: whenever the output of the child has been read (or a stream over it
\* exists), the whole serialized prompt has been written and the input is
\* closed; a read happens only in that situation; the input is written in one
\* step, which is also the step that closes it, it is never reopened, and
\* nothing is written once the stream exists.
C16_Written(c) ==
    (streamState[c] # "none" \/ lastRead[c] # "none" \/ delivered[c] # <<>>)
        => /\ ~stdinOpen[c]
           /\ stdinData[c] = Prompt(request[c])

C16_Step(c) ==
    /\ (lastRead'[c] # lastRead[c] \/ consumed'[c] # consumed[c])
          => /\ ~stdinOpen[c]
             /\ stdinData[c] = Prompt(request[c])
             /\ UNCHANGED <<stdinOpen[c], stdinData[c]>>
    /\ stdinData'[c] # stdinData[c]
          => /\ stdinOpen[c]
             /\ ~stdinOpen'[c]
             /\ lastRead[c] = "none"
             /\ streamState[c] = "none"
    /\ (stdinOpen[c] /\ ~stdinOpen'[c] /\ callPc'[c] = "returned")
          => stdinData'[c] = Prompt(request[c])
    /\ stdinOpen'[c] => (stdinOpen[c] \/ callPc[c] = "created")
    /\ streamState[c] # "none" => UNCHANGED <<stdinOpen[c], stdinData[c]>>

C16_WriteThenRead ==
    /\ [](\A c \in Calls : C16_Written(c))
    /\ [][\A c \in Calls : C16_Step(c)]_vars

\* a non-empty prompt was written and an output line was read after it
C16_Witness ==
    \E c \in Calls :
        /\ stdinData[c] # <<>>
        /\ stdinData[c] = Prompt(request[c])
        /\ ~stdinOpen[c]
        /\ consumed[c] # <<>>
        /\ lastRead[c] = "line"

\* C17: with a consumer that keeps pulling, a stream never delivers more
\* items than the child has lines plus the terminal item; every pull of a live
\* stream delivers one more item or ends it; nothing is delivered after a
\* terminal item; a stream that has ended stays ended and ended only after a
\* terminal item; and every live stream does end, after a terminal item.
C17_Bounded(c) ==
    /\ Len(delivered[c]) <= Len(binary.lines) + 1
    /\ streamState[c] = "ended" => TerminalDelivered(c)
    /\ \A i \in 1..(Len(delivered[c]) - 1) : ~IsTerminal(delivered[c][i])

C17_Step(c) ==
    /\ TerminalDelivered(c) => delivered'[c] = delivered[c]
    /\ streamState[c] = "ended"
          => UNCHANGED <<streamState[c], delivered[c], consumed[c], lastRead[c],
                         streamDone[c]>>
    /\ (streamState[c] = "live" /\ <<streamState, delivered, lastRead>>' # <<streamState, delivered, lastRead>>)
          => \/ Len(delivered'[c]) = Len(delivered[c]) + 1 /\ streamState'[c] = "live"
             \/ delivered'[c] = delivered[c] /\ streamState'[c] = "ended"
                   /\ TerminalDelivered(c)

C17_FiniteSinglePass ==
    /\ [](\A c \in Calls : C17_Bounded(c))
    /\ [][\A c \in Calls : C17_Step(c)]_vars
    /\ \A c \in Solo :
          (streamState[c] = "live")
              ~> (streamState[c] = "ended" /\ TerminalDelivered(c))

\* the stream over a child that never exits by itself has ended after every
\* line and one Stop(EndTurn)
C17_Witness ==
    \E c \in Calls :
        /\ binary.hangs
        /\ Len(binary.lines) = 2
        /\ streamState[c] = "ended"
        /\ lastRead[c] = "eof"
        /\ Len(delivered[c]) = Len(binary.lines) + 1

\* everything that belongs to one call: its future, its child, its pipes and
\* its stream
CallView(c) ==
    <<callPc[c], callKey[c], callResult[c], request[c], cmd[c], childState[c],
      inputDone[c], written[c], pipe[c], stdinOpen[c], stdinData[c], readOpen[c],
      handleOwned[c], killSent[c], streamState[c], streamDone[c], lastRead[c],
      delivered[c], consumed[c]>>

\* C18: with two calls in progress, each call has a child exactly when its
\* spawn has succeeded; the lines read on a call followed by the lines waiting
\* in its pipe are the lines printed by its own child, and the items delivered
\* are their decodings in order; a child is spawned only by the spawn step of
\* its call and never a second time; each step changes the state of at most one
\* call; and no step of a call changes the credential store or the settings.
C18_Own(c) ==
    /\ (childState[c] # "none") <=> (cmd[c] # NoCommand /\ binary.present)
    /\ consumed[c] \o pipe[c] = SubSeq(binary.lines, 1, written[c])
    /\ Len(delivered[c]) \in {Len(consumed[c]), Len(consumed[c]) + 1}
    /\ \A i \in 1..Len(consumed[c]) : delivered[c][i] = parse_line(consumed[c][i])
    /\ Len(delivered[c]) > Len(consumed[c]) => IsTerminal(LastOf(delivered[c]))
    /\ stdinData[c] \in {<<>>, Prompt(request[c])}

C18_Step(c) ==
    /\ (childState[c] = "none" /\ childState'[c] # "none")
          => /\ callPc[c] = "created"
             /\ callPc'[c] = "writing"
             /\ childState'[c] = "running"
    /\ childState[c] # "none" => childState'[c] \in {childState[c], "exited", "killed"}
    /\ childState[c] \in {"exited", "killed"} => childState'[c] = childState[c]
    /\ CallView(c)' # CallView(c)
          => \A d \in Calls \ {c} : CallView(d)' = CallView(d)

C18_Independent ==
    /\ [](\A c \in Calls : C18_Own(c))
    /\ [][\A c \in Calls : C18_Step(c)]_vars
    /\ [][UNCHANGED <<credVars, envVars>>]_vars

\* one call was abandoned and its child killed while the other call delivered
\* every line of its own child and Stop(EndTurn)
C18_Witness ==
    \E c, d \in Calls :
        /\ c # d
        /\ streamState[d] = "dropped"
        /\ childState[d] = "killed"
        /\ consumed[d] = <<>>
        /\ Len(binary.lines) = 2
        /\ streamState[c] = "ended"
        /\ delivered[c] = <<parse_line(binary.lines[1]), parse_line(binary.lines[2]),
                            StopEndTurn>>

\* C19: after a reset, a secret is held only if an authenticate call started
\* after that reset has completed successfully.
C19_ResetNotUndone ==
    (resets > 0 /\ is_authenticated(api_key))
        => \E t \in AuthTasks :
              /\ authPc[t] = "done"
              /\ authResult[t] = "Ok"
              /\ authEpoch[t] = resets

\* C20: at most one secret is stored and announced between construction (or a
\* reset) and the next reset, and before the first reset at most one
\* authenticate call has read the configuration file.
C20_PopulatedOnce ==
    /\ notifications <= 2 * resets + 1
    /\ resets = 0 => Cardinality({t \in AuthTasks : authContents[t] # Unread}) <= 1

====
